---- MODULE Spec2Model ----
(***************************************************************************)
(* ThreeJsCannonEsSceneRigger: a rig session over a cannon-es world.       *)
(*                                                                         *)
(* A scene is the sequence of its nodes in traversal order (what           *)
(* Object3D.traverse visits).  rigScene and clear are modelled step by     *)
(* step (one traversal callback, one loop iteration per step); the host    *)
(* calls them one at a time (single-threaded), so no other operation       *)
(* starts while pc # "idle".                                               *)
(***************************************************************************)
EXTENDS Integers, Sequences, FiniteSets, TLC

\* ------------------------------------------------------------------ bounds
MaxNodes == 3      \* nodes of a scene
MaxIds == 8        \* objects (bodies, constraints) alive at once
MaxRigs == 2       \* rigScene calls on one session
MaxLen == 3        \* length of a raw collision flag array
MaxBit == 2        \* largest element of a raw collision array
MaxPos == 2        \* largest coordinate of a world position
MaxUpdates == 3    \* update calls counted on one sync link
MaxSessions == 3   \* rig sessions the demo host constructs
MaxPending == 2    \* GLTF loads in flight at once

\* ------------------------------------------------------------- enum Type
Nothing == 0
BoxCollider == 1
SphereCollider == 2
CompoundCollider == 3
LockConstraint == 4
HingeConstraint == 5
PointConstraint == 6
DistanceConstraint == 7
SyncLocRot == 8
Cable == 9
Custom == 10

\* ------------------------------------------------- JavaScript values
\* A userData value is undefined, a number, a string or an array.
Undef == [k |-> "undef", v |-> 0]
Num(n) == [k |-> "num", v |-> n]
Str(s) == [k |-> "str", v |-> s]
Arr(a) == [k |-> "arr", v |-> a]

\* if (value): undefined and 0 are falsy, every array (also []) is truthy.
Truthy(x) ==
    CASE x.k = "undef" -> FALSE
      [] x.k = "num" -> x.v # 0
      [] x.k = "str" -> x.v # ""
      [] OTHER -> TRUE

\* value ?? d : only undefined is replaced.
Nullish(x, d) == IF x.k = "undef" THEN d ELSE x.v

\* a | b on non-negative integers.
RECURSIVE BitOr(_, _)
BitOr(a, b) ==
    IF a = 0 THEN b
    ELSE IF b = 0 THEN a
    ELSE (IF (a % 2 = 1) \/ (b % 2 = 1) THEN 1 ELSE 0)
         + 2 * BitOr(a \div 2, b \div 2)

\* bit << idx on 32-bit integers (the shift count is taken modulo 32).  With
\* idx < MaxLen and bit <= MaxBit no result reaches 2^31, so the wrap-around
\* of the 32-bit result never happens within the bounds.
Shl(bit, idx) == bit * 2 ^ (idx % 32)

\* The userData.name / reference name that is undefined.
NoName == "<undefined>"
\* No body / no object.
NoObj == 0

\* ---------------------------------------------------------- TypeAsString
\* The table keyed by the words none / distance / cable.
TypeAsStringWords(s) ==
    CASE s = "none" -> Num(Nothing)
      [] s = "box" -> Num(BoxCollider)
      [] s = "sphere" -> Num(SphereCollider)
      [] s = "compound" -> Num(CompoundCollider)
      [] s = "lock" -> Num(LockConstraint)
      [] s = "hinge" -> Num(HingeConstraint)
      [] s = "point" -> Num(PointConstraint)
      [] s = "distance" -> Num(DistanceConstraint)
      [] s = "sync" -> Num(SyncLocRot)
      [] s = "cable" -> Num(Cable)
      [] s = "custom" -> Num(Custom)
      [] OTHER -> Undef

\* TypeAsString[s]: a key of the table gives its enum value, any other
\* string gives undefined.
TypeAsString(s) ==
    CASE s = "x" -> Num(Nothing)
      [] s = "box" -> Num(BoxCollider)
      [] s = "sphere" -> Num(SphereCollider)
      [] s = "compound" -> Num(CompoundCollider)
      [] s = "lock" -> Num(LockConstraint)
      [] s = "hinge" -> Num(HingeConstraint)
      [] s = "point" -> Num(PointConstraint)
      [] s = "dist" -> Num(DistanceConstraint)
      [] s = "sync" -> Num(SyncLocRot)
      [] s = "tube" -> Num(Cable)
      [] s = "custom" -> Num(Custom)
      [] OTHER -> Undef

\* ------------------------------------------------------- arrayToBitmask
\* flags.reduce((mask, bit, idx) => mask | (bit << idx), 0); Reduce(f, n)
\* folds the first n elements (idx is 0-based: element i has idx i-1).
RECURSIVE Reduce(_, _)
Reduce(f, n) ==
    IF n = 0 THEN 0 ELSE BitOr(Reduce(f, n - 1), Shl(f[n], n - 1))

\* A reduce that shifts by the 1-based position.
RECURSIVE ReduceOneBased(_, _)
ReduceOneBased(f, n) ==
    IF n = 0 THEN 0 ELSE BitOr(ReduceOneBased(f, n - 1), Shl(f[n], n))

arrayToBitmaskOneBased(flags, flagsArray) ==
    LET f == IF flags.k = "num"
             THEN (IF flagsArray.k = "undef" THEN <<>> ELSE flagsArray.v)
             ELSE flags.v
    IN IF Len(f) = 0 THEN 0 ELSE ReduceOneBased(f, Len(f))

arrayToBitmask(flags, flagsArray) ==
    LET f == IF flags.k = "num"
             THEN (IF flagsArray.k = "undef" THEN <<>> ELSE flagsArray.v)
             ELSE flags.v
    IN IF Len(f) = 0 THEN 0 ELSE Reduce(f, Len(f))

\* ------------------------------------------- rigScene pass 1: normalizing
\* What the first traversal writes back into o.userData.
NormalizeNode(o) ==
    [o EXCEPT
       !.type = IF o.type.k = "str" THEN TypeAsString(o.type.v) ELSE o.type,
       !.cgroup = IF Truthy(o.cgroup)
                  THEN Num(arrayToBitmask(o.cgroup, o.cgroup_array))
                  ELSE o.cgroup,
       !.cwith = IF Truthy(o.cwith)
                 THEN Num(arrayToBitmask(o.cwith, o.cwith_array))
                 ELSE o.cwith]

\* o.userData.threejscannones_type == Type.X (loose equality with a number).
TypeIs(o, t) == o.type.k = "num" /\ o.type.v = t

IsColliderType(o) ==
    TypeIs(o, BoxCollider) \/ TypeIs(o, SphereCollider) \/ TypeIs(o, CompoundCollider)

\* createCollider: the collision filter the new Body is given.
ColliderGroup(o) == Nullish(o.cgroup, 1)
ColliderMask(o) == Nullish(o.cwith, 1)

\* ------------------------------------------------------------ scene nodes
\* The userData of a node: threejscannones_type, _cgroup, _cgroup_array,
\* _cwith, _cwith_array, name, the names A / B / syncSource refer to
\* (NoName when the reference is absent: o.userData.threejscannones_A?.name
\* is then undefined), and threejscannones_customId ("" and NoName are both
\* falsy identifiers).
Node(name, type, cgroup, cgroup_array, cwith, cwith_array, A, B, src, customId) ==
    [name |-> name, type |-> type,
     cgroup |-> cgroup, cgroup_array |-> cgroup_array,
     cwith |-> cwith, cwith_array |-> cwith_array,
     A |-> A, B |-> B, syncSource |-> src, customId |-> customId]

\* A node with a tag and references only.
Tagged(name, type, A, B, src, customId) ==
    Node(name, type, Undef, Undef, Undef, Undef, A, B, src, customId)

\* Names that nodes carry, and the keys of customConstraints.
Names == {"a", "b", "c", "d"}
NameKeys == Names \cup {NoName}

\* Identifiers the host registers factories for ("bar" is never registered).
HostIds == {"foo"}
\* What a host factory does: "plain" returns a new constraint object,
\* "joint" returns a new constraint object that it has added to the world.
Factories == {"plain", "joint"}
NoFactory == "none"

\* The nodes the scenes of Spec are made of: three colliders (one without a
\* name), joints, sync links, a cable and custom constraints.
Catalog ==
    { Tagged("a", Num(BoxCollider), NoName, NoName, NoName, NoName),
      Node("b", Str("sphere"), Arr(<<0, 1>>), Undef, Undef, Undef,
           NoName, NoName, NoName, NoName),
      Tagged(NoName, Num(CompoundCollider), NoName, NoName, NoName, NoName),
      Tagged("c", Num(LockConstraint), "a", "b", NoName, NoName),
      Tagged("d", Num(HingeConstraint), "a", "b", NoName, NoName),
      Tagged("c", Num(SyncLocRot), NoName, NoName, "a", NoName),
      Tagged("d", Str("sync"), NoName, NoName, NoName, NoName),
      Tagged("c", Num(Cable), "a", "b", NoName, NoName),
      Tagged("c", Num(Custom), "a", NoName, NoName, "foo"),
      Tagged("d", Str("custom"), NoName, NoName, NoName, NoName) }

RECURSIVE SeqsUpTo(_, _)
SeqsUpTo(S, n) ==
    IF n = 0 THEN {<<>>}
    ELSE LET shorter == SeqsUpTo(S, n - 1)
         IN shorter \cup {Append(q, x) : q \in {r \in shorter : Len(r) = n - 1}, x \in S}

Scenes == SeqsUpTo(Catalog, MaxNodes) \ {<<>>}

\* ---------------------------------------------------------------- state
VARIABLES
    raw,                          \* the scene as loaded (userData as exported)
    nodes,                        \* the scene's userData now (pass 1 rewrites it)
    pc,                           \* "idle", "pass1", "pass2", "clear"
    idx,                          \* the node the running traversal is at
    worldBodies,                  \* world.bodies
    worldConstraints,             \* world.constraints
    obj2bod,                      \* Map node -> body, in insertion order
    constraints,                  \* this.constraints
    customId2ConstraintFactory,   \* Map id -> factory
    customConstraints,            \* Map name -> custom constraint
    hist,                         \* the last completed calls on the session
    rigs,                         \* rigScene calls so far
    lastRegistered,               \* per id, the creator the host registered last
    before,                       \* the world when the last rigScene began
    created,                      \* constraints the last rigScene created
    factoryReturned,              \* per node, what its factory call returned
    children,                     \* per node, its children's world positions
    vec,                          \* the shared scratch vector vec
    vec2,                         \* the shared scratch vector vec2
    tubes,                        \* per node, the tube createCable last built
    syncLink,                     \* one SyncConstraint: hasInit and cached offset
    bodyPose,                     \* the pose of the body the link follows
    objPose,                      \* the pose of the node the link drives
    updates,                      \* update calls on the link so far
    physicsRig,                   \* the demo host's physicsRig (0: undefined)
    pending,                      \* GLTF loads started and not yet completed
    inWorld,                      \* sessions with bodies in the host's world
    sessions,                     \* sessions the host has constructed
    rendered                      \* poses at the host's last render

\* The session and its world.
rigVars == <<raw, nodes, pc, idx, worldBodies, worldConstraints, obj2bod,
             constraints, customId2ConstraintFactory, customConstraints,
             hist, rigs, lastRegistered, before, created, factoryReturned>>

\* createCable's geometry: the scene's children and the scratch vectors.
cableVars == <<children, vec, vec2, tubes>>

\* One sync link and the two poses it relates.
syncVars == <<syncLink, bodyPose, objPose, updates>>

\* The demo host (main.ts).
hostVars == <<physicsRig, pending, inWorld, sessions, rendered>>

vars == <<rigVars, cableVars, syncVars, hostVars>>

\* A body the host itself put in the world before any rigging.
HostBody == MaxIds + 1

Ids == 1..MaxIds

\* customId2ConstraintFactory.get(id)
GetFactory(reg, id) == IF id \in DOMAIN reg THEN reg[id] ELSE NoFactory

\* ------------------------------------------------------- session records
\* The operations of the class are written as functions from the session's
\* fields (and the world's) to their new values; `threw` says that the
\* operation threw, `ret` is what it returned.
Session ==
    [worldBodies |-> worldBodies, worldConstraints |-> worldConstraints,
     obj2bod |-> obj2bod, constraints |-> constraints,
     customConstraints |-> customConstraints, created |-> created,
     factoryReturned |-> factoryReturned, threw |-> FALSE, ret |-> NoObj]

ConstraintIds(c) == {c.id, c.cannon, c.body, c.tube, c.lockToA, c.lockToB}

\* Every object something still refers to.
UsedIds(s) ==
    s.worldBodies \cup s.worldConstraints \cup s.created
    \cup {s.obj2bod[j].body : j \in DOMAIN s.obj2bod}
    \cup UNION {ConstraintIds(s.constraints[j]) : j \in DOMAIN s.constraints}
    \cup {s.customConstraints[n] : n \in DOMAIN s.customConstraints}
    \cup {s.factoryReturned[j].obj : j \in DOMAIN s.factoryReturned}

FreeIds(s) == Ids \ UsedIds(s)

\* new X(): the k-th object allocated by one step.
RECURSIVE KthOf(_, _)
KthOf(S, k) ==
    LET m == CHOOSE x \in S : \A y \in S : x <= y
    IN IF k = 1 THEN m ELSE KthOf(S \ {m}, k - 1)

FreshK(s, k) == KthOf(FreeIds(s), k)

\* What one rigScene of these nodes may allocate.
NodeNeed(o) ==
    LET n == NormalizeNode(o)
    IN CASE IsColliderType(n) -> 1
         [] TypeIs(n, Cable) -> 4
         [] n.type.k = "num" /\ n.type.v \in LockConstraint..Custom -> 1
         [] OTHER -> 0

RECURSIVE SceneNeed(_, _)
SceneNeed(ns, n) == IF n = 0 THEN 0 ELSE SceneNeed(ns, n - 1) + NodeNeed(ns[n])

\* ------------------------------------------------------------- lookups
\* getBodyByName: the first entry of obj2bod (insertion order) whose node's
\* userData.name === name.
getBodyByName(o2b, ns, name) ==
    LET hits == {j \in DOMAIN o2b : ns[o2b[j].obj].name = name}
    IN IF hits = {} THEN NoObj
       ELSE o2b[CHOOSE j \in hits : \A h \in hits : j <= h].body

\* getConstraintByName: constraints.find(c => c.name == name); NoObj when
\* there is none.
getConstraintByName(cs, ns, name) ==
    LET hits == {j \in DOMAIN cs : ns[cs[j].obj].name = name}
    IN IF hits = {} THEN NoObj
       ELSE cs[CHOOSE j \in hits : \A h \in hits : j <= h].id

getCustomConstraint(cc, name) == cc[name]

\* getCableConstraint / getSyncConstraint: getConstraintByName(name), cast.
getCableConstraint(cs, ns, name) == getConstraintByName(cs, ns, name)

getSyncConstraint(cs, ns, name) == getConstraintByName(cs, ns, name)

\* getConstraintByName(name)?.cannonConstraint
cannonConstraintByName(cs, ns, name) ==
    LET hits == {j \in DOMAIN cs : ns[cs[j].obj].name = name}
    IN IF hits = {} THEN NoObj
       ELSE cs[CHOOSE j \in hits : \A h \in hits : j <= h].cannon

getLockConstraint(cs, ns, name) == cannonConstraintByName(cs, ns, name)

getHingeConstraint(cs, ns, name) == cannonConstraintByName(cs, ns, name)

getPointConstraint(cs, ns, name) == cannonConstraintByName(cs, ns, name)

getDistanceConstraint(cs, ns, name) == cannonConstraintByName(cs, ns, name)

\* obj2bod.set(o, body): a key already present keeps its place.
MapSet(o2b, e) ==
    IF \E j \in DOMAIN o2b : o2b[j].obj = e.obj
    THEN [j \in DOMAIN o2b |-> IF o2b[j].obj = e.obj THEN e ELSE o2b[j]]
    ELSE Append(o2b, e)

\* ------------------------------------------------------- createCollider
createCollider(s, i, o) ==
    LET body == FreshK(s, 1)
    IN [s EXCEPT
          !.worldBodies = @ \cup {body},
          !.obj2bod = MapSet(@, [obj |-> i, body |-> body,
                                 group |-> ColliderGroup(o),
                                 mask |-> ColliderMask(o)]),
          !.ret = body]

\* ------------------------------------------------------ constraint objects
\* A ThreeJsCannonEsConstraint (kind "joint": it wraps cannonConstraint), a
\* SyncConstraint or a CableConstraint.
Wrapper(id, kind, jointType, obj, cannon, body, tube, lockToA, lockToB) ==
    [id |-> id, kind |-> kind, jointType |-> jointType, obj |-> obj,
     cannon |-> cannon, body |-> body, hasInit |-> FALSE, tube |-> tube,
     lockToA |-> lockToA, lockToB |-> lockToB]

\* new XConstraint(a, b); world.addConstraint(constraint); return constraint
NewJoint(s) ==
    LET c == FreshK(s, 1)
    IN [s EXCEPT !.worldConstraints = @ \cup {c}, !.created = @ \cup {c},
                 !.ret = c]

Throw(s) == [s EXCEPT !.threw = TRUE]

\* createPointConstraint / createHingeConstraint call a.pointToLocalFrame
\* and b.pointToLocalFrame first: a TypeError when a body is undefined.
createPointConstraint(s, a, b) ==
    IF a = NoObj \/ b = NoObj THEN Throw(s) ELSE NewJoint(s)

createHingeConstraint(s, a, b) ==
    IF a = NoObj \/ b = NoObj THEN Throw(s) ELSE NewJoint(s)

\* createLockConstraint / createDistanceConstraint hand the bodies to the
\* cannon-es constructor unchecked; with an undefined body what the
\* constructor does is not this repository's code: lib is "throw" or "create".
createLockConstraint(s, a, b, lib) ==
    IF (a = NoObj \/ b = NoObj) /\ lib = "throw" THEN Throw(s) ELSE NewJoint(s)

createDistanceConstraint(s, a, b, lib) ==
    IF (a = NoObj \/ b = NoObj) /\ lib = "throw" THEN Throw(s) ELSE NewJoint(s)

\* A createSyncBetween that would throw without a source body.
createSyncBetweenStrict(s, i, body) ==
    IF body = NoObj THEN Throw(s)
    ELSE LET c == FreshK(s, 1)
         IN [s EXCEPT
               !.constraints = Append(@, Wrapper(c, "sync", Nothing, i, NoObj,
                                                  body, NoObj, NoObj, NoObj)),
               !.created = @ \cup {c}]

\* createSyncBetween
createSyncBetween(s, i, body) ==
    IF body = NoObj THEN s
    ELSE LET c == FreshK(s, 1)
         IN [s EXCEPT
               !.constraints = Append(@, Wrapper(c, "sync", Nothing, i, NoObj,
                                                  body, NoObj, NoObj, NoObj)),
               !.created = @ \cup {c}]

\* CableConstraint.lockXTo: the world's constraints after the old lock is
\* removed and, with a target, the new lock `fresh` is added.
lockXTo(wc, old, target, fresh) ==
    [wc |-> (wc \ (IF old # NoObj THEN {old} ELSE {}))
              \cup (IF target # NoObj THEN {fresh} ELSE {}),
     result |-> IF target # NoObj THEN fresh ELSE NoObj]

\* createCable: the tube registers its chain of bodies and joints in the
\* world (tube.addToPhysicalWorld), then new CableConstraint locks head and
\* tail to A and B when they are set.
createCable(s, i, stickToA, stickToB) ==
    LET tube == FreshK(s, 1)
        c == FreshK(s, 2)
        wc0 == s.worldConstraints \cup {tube}
        head == IF stickToA # NoObj
                THEN lockXTo(wc0, NoObj, stickToA, FreshK(s, 3))
                ELSE [wc |-> wc0, result |-> NoObj]
        tail == IF stickToB # NoObj
                THEN lockXTo(head.wc, NoObj, stickToB, FreshK(s, 4))
                ELSE [wc |-> head.wc, result |-> NoObj]
    IN [s EXCEPT
          !.worldBodies = @ \cup {tube},
          !.worldConstraints = tail.wc,
          !.constraints = Append(@, Wrapper(c, "cable", Nothing, i, NoObj, NoObj,
                                            tube, head.result, tail.result)),
          !.created = @ \cup {c}]

\* A createCustomConstraint that would skip a node it cannot build.
createCustomConstraintLenient(s, i, o, reg) ==
    IF o.customId \in {NoName, ""} \/ GetFactory(reg, o.customId) = NoFactory
    THEN s
    ELSE LET c == FreshK(s, 1)
             f == GetFactory(reg, o.customId)
         IN [s EXCEPT
               !.worldConstraints = IF f = "joint" THEN @ \cup {c} ELSE @,
               !.customConstraints = [@ EXCEPT ![o.name] = c],
               !.factoryReturned = [@ EXCEPT ![i] = [obj |-> c, by |-> f]],
               !.created = @ \cup {c}]

\* createCustomConstraint
createCustomConstraint(s, i, o, reg) ==
    IF o.customId \in {NoName, ""} THEN Throw(s)
    ELSE IF GetFactory(reg, o.customId) = NoFactory THEN Throw(s)
    ELSE LET c == FreshK(s, 1)
             f == GetFactory(reg, o.customId)
         IN [s EXCEPT
               !.worldConstraints = IF f = "joint" THEN @ \cup {c} ELSE @,
               !.customConstraints = [@ EXCEPT ![o.name] = c],
               !.factoryReturned = [@ EXCEPT ![i] = [obj |-> c, by |-> f]],
               !.created = @ \cup {c}]

\* if (constaint) this.constraints.push(new ThreeJsCannonEsConstraint(o, constaint))
PushJoint(s, i, jointType) ==
    IF s.threw \/ s.ret = NoObj THEN s
    ELSE [s EXCEPT !.constraints =
            Append(@, Wrapper(s.ret, "joint", jointType, i, s.ret, NoObj,
                              NoObj, NoObj, NoObj))]

\* The callback of the second traversal, on node i.
Pass2Node(s, ns, i, reg, lib) ==
    LET o == ns[i]
        A == getBodyByName(s.obj2bod, ns, o.A)
        B == getBodyByName(s.obj2bod, ns, o.B)
        source == getBodyByName(s.obj2bod, ns, o.syncSource)
    IN CASE TypeIs(o, DistanceConstraint) ->
              PushJoint(createDistanceConstraint(s, A, B, lib), i, DistanceConstraint)
         [] TypeIs(o, PointConstraint) ->
              PushJoint(createPointConstraint(s, A, B), i, PointConstraint)
         [] TypeIs(o, HingeConstraint) ->
              PushJoint(createHingeConstraint(s, A, B), i, HingeConstraint)
         [] TypeIs(o, LockConstraint) ->
              PushJoint(createLockConstraint(s, A, B, lib), i, LockConstraint)
         [] TypeIs(o, SyncLocRot) -> createSyncBetween(s, i, source)
         [] TypeIs(o, Cable) -> createCable(s, i, A, B)
         [] TypeIs(o, Custom) -> createCustomConstraint(s, i, o, reg)
         [] OTHER -> s

\* The callback of the first traversal, on node i (o is already normalized).
Pass1Node(s, i, o) == IF IsColliderType(o) THEN createCollider(s, i, o) ELSE s

\* A removeFrom that CableConstraint would not override.
removeFromBaseOnly(c, wb, wc) ==
    [worldBodies |-> wb, worldConstraints |-> wc \ {c.cannon}]

\* constraint.removeFrom(world): the world afterwards.
removeFrom(c, wb, wc) ==
    CASE c.kind = "cable" ->
           [worldBodies |-> wb \ {c.tube},
            worldConstraints |-> wc \ {c.lockToA, c.lockToB, c.tube}]
      [] c.kind = "joint" ->
           [worldBodies |-> wb, worldConstraints |-> wc \ {c.cannon}]
      [] OTHER -> [worldBodies |-> wb, worldConstraints |-> wc]

\* SyncConstraint.update sets hasInit; the other updates keep no state here.
updateConstraint(c) == IF c.kind = "sync" THEN [c EXCEPT !.hasInit = TRUE] ELSE c

\* What the host has just done with the session: "register", "rig" (rigScene
\* returned), "rigThrow" (rigScene threw), "update", "clear", or "rig;clear" /
\* "rigThrow;clear" (a clear that followed a rigScene which had returned /
\* thrown).
Remember(h, op) ==
    IF op = "clear" /\ h = "rig" THEN "rig;clear"
    ELSE IF op = "clear" /\ h = "rigThrow" THEN "rigThrow;clear"
    ELSE op

\* ---------------------------------------------------- createCable geometry
\* Positions are coordinates on one axis.  A child's matrixWorld is a
\* translation to its world position, so child.localToWorld(v) is that
\* position plus what v held, and getWorldPosition(v) overwrites v.
Abs(x) == IF x < 0 THEN -x ELSE x

getWorldPosition(childPos) == childPos

localToWorld(childPos, v) == childPos + v

\* No tube built for the node.
NoTube == [built |-> FALSE, length |-> 0, placed |-> FALSE, position |-> 0, lookAt |-> 0]

\* createCable up to tube.lookAt: the scratch vectors afterwards, and the
\* tube's length and placement (cableLength 1 and no placement with fewer
\* than two children).
cableGeometry(kids, v, v2) ==
    IF Len(kids) > 1
    THEN LET nv == getWorldPosition(kids[1])
             nv2 == localToWorld(kids[2], v2)
         IN [vec |-> nv, vec2 |-> nv2,
             tube |-> [built |-> TRUE, length |-> Abs(nv - nv2), placed |-> TRUE,
                       position |-> nv, lookAt |-> nv2]]
    ELSE [vec |-> v, vec2 |-> v2,
          tube |-> [built |-> TRUE, length |-> 1, placed |-> FALSE,
                    position |-> 0, lookAt |-> 0]]

\* --------------------------------------------------------------- actions
SessionEmpty == obj2bod = <<>> /\ constraints = <<>>

InitSession ==
    /\ nodes = raw
    /\ pc = "idle"
    /\ idx = 0
    /\ worldBodies = {HostBody}
    /\ worldConstraints = {}
    /\ obj2bod = <<>>
    /\ constraints = <<>>
    /\ customId2ConstraintFactory = [id \in HostIds |-> NoFactory]
    /\ customConstraints = [n \in NameKeys |-> NoObj]
    /\ hist = "none"
    /\ rigs = 0
    /\ lastRegistered = [id \in HostIds |-> NoFactory]
    /\ before = [worldBodies |-> {HostBody}, worldConstraints |-> {}, empty |-> TRUE]
    /\ created = {}
    /\ factoryReturned = [i \in DOMAIN raw |-> [obj |-> NoObj, by |-> NoFactory]]

\* The scratch vectors as the module creates them; no node has children.
InitScratch ==
    /\ vec = 0
    /\ vec2 = 0
    /\ tubes = [i \in DOMAIN raw |-> NoTube]

NoChildren == children = [i \in DOMAIN raw |-> <<>>]

\* No sync link is followed.
SyncIdle ==
    /\ syncLink = [hasInit |-> FALSE, offsetPos |-> 0]
    /\ bodyPose = 0
    /\ objPose = 0
    /\ updates = 0

\* The demo host is not running.
HostIdle ==
    /\ physicsRig = 0
    /\ pending = 0
    /\ inWorld = {}
    /\ sessions = 0
    /\ rendered = [drawn |-> FALSE, obj |-> 0, body |-> 0]

Init == raw \in Scenes /\ InitSession /\ InitScratch /\ NoChildren /\ SyncIdle /\ HostIdle

\* A registry that would keep the first factory registered under an identifier.
RegisterCustomConstraintKeepFirst(id, creator) ==
    /\ pc = "idle"
    /\ customId2ConstraintFactory' =
         IF id \in DOMAIN customId2ConstraintFactory
            /\ customId2ConstraintFactory[id] # NoFactory
         THEN customId2ConstraintFactory
         ELSE [customId2ConstraintFactory EXCEPT ![id] = creator]
    /\ lastRegistered' = [lastRegistered EXCEPT ![id] = creator]
    /\ hist' = Remember(hist, "register")
    /\ UNCHANGED <<raw, nodes, pc, idx, worldBodies, worldConstraints, obj2bod,
                   constraints, customConstraints, rigs, before, created,
                   factoryReturned>>
    /\ UNCHANGED <<cableVars, syncVars, hostVars>>

\* registerCustomConstraint(id, creator)
RegisterCustomConstraint(id, creator) ==
    /\ pc = "idle"
    /\ customId2ConstraintFactory' = [customId2ConstraintFactory EXCEPT ![id] = creator]
    /\ lastRegistered' = [lastRegistered EXCEPT ![id] = creator]
    /\ hist' = Remember(hist, "register")
    /\ UNCHANGED <<raw, nodes, pc, idx, worldBodies, worldConstraints, obj2bod,
                   constraints, customConstraints, rigs, before, created,
                   factoryReturned>>
    /\ UNCHANGED <<cableVars, syncVars, hostVars>>

\* rigScene(scene) is called (also by the constructor, when given a scene).
RigBegin ==
    /\ pc = "idle"
    /\ Cardinality(FreeIds([Session EXCEPT !.created = {}])) >= SceneNeed(nodes, Len(nodes))
    /\ rigs < MaxRigs
    /\ rigs' = rigs + 1
    /\ pc' = "pass1"
    /\ idx' = 1
    /\ before' = [worldBodies |-> worldBodies, worldConstraints |-> worldConstraints,
                  empty |-> SessionEmpty]
    /\ created' = {}
    /\ UNCHANGED <<raw, nodes, worldBodies, worldConstraints, obj2bod, constraints,
                   customId2ConstraintFactory, customConstraints, hist, lastRegistered,
                   factoryReturned>>
    /\ UNCHANGED <<cableVars, syncVars, hostVars>>

\* A first traversal that would hand over to the second one after one node.
Pass1StepOneNode ==
    /\ pc = "pass1"
    /\ LET o == NormalizeNode(nodes[idx])
           s == Pass1Node(Session, idx, o)
       IN /\ nodes' = [nodes EXCEPT ![idx] = o]
          /\ worldBodies' = s.worldBodies
          /\ obj2bod' = s.obj2bod
    /\ pc' = "pass2"
    /\ idx' = 1
    /\ UNCHANGED <<raw, worldConstraints, constraints, customId2ConstraintFactory,
                   customConstraints, hist, rigs, lastRegistered, before,
                   created, factoryReturned>>
    /\ UNCHANGED <<cableVars, syncVars, hostVars>>

\* The first traversal visits node idx: normalize, then build its body.
Pass1Step ==
    /\ pc = "pass1"
    /\ LET o == NormalizeNode(nodes[idx])
           s == Pass1Node(Session, idx, o)
       IN /\ nodes' = [nodes EXCEPT ![idx] = o]
          /\ worldBodies' = s.worldBodies
          /\ obj2bod' = s.obj2bod
    /\ IF idx = Len(nodes)
       THEN pc' = "pass2" /\ idx' = 1
       ELSE pc' = pc /\ idx' = idx + 1
    /\ UNCHANGED <<raw, worldConstraints, constraints, customId2ConstraintFactory,
                   customConstraints, hist, rigs, lastRegistered, before,
                   created, factoryReturned>>
    /\ UNCHANGED <<cableVars, syncVars, hostVars>>

\* A second traversal that would take its bodies and joints out of the world
\* again when a node throws.
Pass2StepRollback ==
    /\ pc = "pass2"
    /\ \E lib \in {"throw", "create"} :
         LET s == Pass2Node(Session, nodes, idx, customId2ConstraintFactory, lib)
         IN /\ worldBodies' = IF s.threw THEN before.worldBodies ELSE s.worldBodies
            /\ worldConstraints' = IF s.threw THEN before.worldConstraints
                                   ELSE s.worldConstraints
            /\ constraints' = s.constraints
            /\ customConstraints' = s.customConstraints
            /\ created' = s.created
            /\ factoryReturned' = s.factoryReturned
            /\ IF s.threw
               THEN pc' = "idle" /\ idx' = idx /\ hist' = Remember(hist, "rigThrow")
               ELSE IF idx = Len(nodes)
               THEN pc' = "idle" /\ idx' = 0 /\ hist' = Remember(hist, "rig")
               ELSE pc' = pc /\ idx' = idx + 1 /\ hist' = hist
    /\ UNCHANGED <<raw, nodes, obj2bod, customId2ConstraintFactory, rigs,
                   lastRegistered, before>>
    /\ IF TypeIs(nodes[idx], Cable)
       THEN LET g == cableGeometry(children[idx], vec, vec2)
            IN /\ vec' = g.vec
               /\ vec2' = g.vec2
               /\ tubes' = [tubes EXCEPT ![idx] = g.tube]
       ELSE UNCHANGED <<vec, vec2, tubes>>
    /\ UNCHANGED <<children, syncVars, hostVars>>

\* The second traversal visits node idx; a throw ends rigScene there.
Pass2Step ==
    /\ pc = "pass2"
    /\ \E lib \in {"throw", "create"} :
         LET s == Pass2Node(Session, nodes, idx, customId2ConstraintFactory, lib)
         IN /\ worldBodies' = s.worldBodies
            /\ worldConstraints' = s.worldConstraints
            /\ constraints' = s.constraints
            /\ customConstraints' = s.customConstraints
            /\ created' = s.created
            /\ factoryReturned' = s.factoryReturned
            /\ IF s.threw
               THEN pc' = "idle" /\ idx' = idx /\ hist' = Remember(hist, "rigThrow")
               ELSE IF idx = Len(nodes)
               THEN pc' = "idle" /\ idx' = 0 /\ hist' = Remember(hist, "rig")
               ELSE pc' = pc /\ idx' = idx + 1 /\ hist' = hist
    /\ UNCHANGED <<raw, nodes, obj2bod, customId2ConstraintFactory, rigs,
                   lastRegistered, before>>
    /\ IF TypeIs(nodes[idx], Cable)
       THEN LET g == cableGeometry(children[idx], vec, vec2)
            IN /\ vec' = g.vec
               /\ vec2' = g.vec2
               /\ tubes' = [tubes EXCEPT ![idx] = g.tube]
       ELSE UNCHANGED <<vec, vec2, tubes>>
    /\ UNCHANGED <<children, syncVars, hostVars>>

\* clear() is called.
ClearBegin ==
    /\ pc = "idle"
    /\ pc' = "clear"
    /\ UNCHANGED <<raw, nodes, idx, worldBodies, worldConstraints, obj2bod,
                   constraints, customId2ConstraintFactory, customConstraints,
                   hist, rigs, lastRegistered, before,
                   created, factoryReturned>>
    /\ vec' = 0
    /\ vec2' = 0
    /\ UNCHANGED <<children, tubes, syncVars, hostVars>>

\* while (this.constraints.length) this.constraints.pop().removeFrom(world)
ClearPop ==
    /\ pc = "clear"
    /\ constraints # <<>>
    /\ LET c == constraints[Len(constraints)]
           w == removeFrom(c, worldBodies, worldConstraints)
       IN /\ worldBodies' = w.worldBodies
          /\ worldConstraints' = w.worldConstraints
          /\ constraints' = SubSeq(constraints, 1, Len(constraints) - 1)
    /\ UNCHANGED <<raw, nodes, pc, idx, obj2bod, customId2ConstraintFactory,
                   customConstraints, hist, rigs, lastRegistered, before,
                   created, factoryReturned>>
    /\ UNCHANGED <<cableVars, syncVars, hostVars>>

\* for (body of obj2bod) world.removeBody(body); obj2bod.clear()
ClearBodies ==
    /\ pc = "clear"
    /\ constraints = <<>>
    /\ worldBodies' = worldBodies \ {obj2bod[j].body : j \in DOMAIN obj2bod}
    /\ obj2bod' = <<>>
    /\ pc' = "idle"
    /\ hist' = Remember(hist, "clear")
    /\ UNCHANGED <<raw, nodes, idx, worldConstraints, constraints,
                   customId2ConstraintFactory, customConstraints, rigs,
                   lastRegistered, before, created, factoryReturned>>
    /\ UNCHANGED <<cableVars, syncVars, hostVars>>

\* update(delta)
Update ==
    /\ pc = "idle"
    /\ constraints' = [j \in DOMAIN constraints |-> updateConstraint(constraints[j])]
    /\ hist' = Remember(hist, "update")
    /\ UNCHANGED <<raw, nodes, pc, idx, worldBodies, worldConstraints, obj2bod,
                   customId2ConstraintFactory, customConstraints, rigs,
                   lastRegistered, before, created, factoryReturned>>
    /\ UNCHANGED <<cableVars, syncVars, hostVars>>

Register == \E id \in HostIds, creator \in Factories : RegisterCustomConstraint(id, creator)

Next ==
    \/ Register
    \/ RigBegin
    \/ Pass1Step
    \/ Pass2Step
    \/ ClearBegin
    \/ ClearPop
    \/ ClearBodies
    \/ Update

Spec == Init /\ [][Next]_vars

\* ----------------------------------------------- scenes for normalization
\* SpecNorm runs the same session over scenes whose last node carries every
\* raw form of an annotation: every tag (absent, string, number), and every
\* collision group / mask (absent, number, array; with and without the
\* companion array).
TagStrings ==
    {"x", "box", "sphere", "compound", "lock", "hinge", "point", "dist", "sync",
     "tube", "custom", "none", "distance", "cable", "foo"}

RawTags ==
    {Undef} \cup {Num(n) : n \in Nothing..(Custom + 1)} \cup {Str(t) : t \in TagStrings}

RawArrays == {Arr(a) : a \in SeqsUpTo(0..MaxBit, MaxLen)}

\* (value, companion array) of a collision group or mask.
RawMasks ==
    {<<Undef, Undef>>}
    \cup (RawArrays \X {Undef, Arr(<<1, 1>>)})
    \cup ({Num(0), Num(1), Num(5)} \X ({Undef} \cup RawArrays))

TagNodes ==
    {Tagged("c", t, "a", "b", "a", "foo") : t \in RawTags}
    \cup {Tagged("c", Str("custom"), "a", "b", "a", id) : id \in {NoName, "", "bar"}}

GroupNodes ==
    {Node("a", Num(BoxCollider), m[1], m[2], Undef, Undef,
          NoName, NoName, NoName, NoName) : m \in RawMasks}

MaskNodes ==
    {Node("a", Num(SphereCollider), Undef, Undef, m[1], m[2],
          NoName, NoName, NoName, NoName) : m \in RawMasks}

BoxA == Tagged("a", Num(BoxCollider), NoName, NoName, NoName, NoName)
BoxB == Tagged("b", Str("box"), NoName, NoName, NoName, NoName)

NormScenes ==
    {<<n>> : n \in TagNodes \cup GroupNodes \cup MaskNodes}
    \cup {<<BoxA, BoxB, n>> : n \in TagNodes}

InitNorm ==
    raw \in NormScenes /\ InitSession /\ InitScratch /\ NoChildren /\ SyncIdle /\ HostIdle

SpecNorm == InitNorm /\ [][Next]_vars

\* ------------------------------------------------------- cable scenes
\* SpecCable runs the session over scenes with cable nodes that have
\* children, and lets the host call the public methods of a tracked
\* CableConstraint (which it gets from getCableConstraint).
CableC == Tagged("c", Num(Cable), "a", "b", NoName, NoName)
CableD == Tagged("d", Num(Cable), NoName, NoName, NoName, NoName)

CableScenes ==
    {<<CableC>>, <<BoxA, CableC>>, <<BoxA, BoxB, CableC>>, <<CableC, CableD>>}

\* The children of a cable node: their world positions.
KidsChoices == {<<1>>} \cup {<<p, q>> : p \in 0..MaxPos, q \in 0..MaxPos}

InitCable ==
    /\ raw \in CableScenes
    /\ InitSession /\ InitScratch /\ SyncIdle /\ HostIdle
    /\ children \in [DOMAIN raw -> KidsChoices \cup {<<>>}]
    /\ \A i \in DOMAIN raw : children[i] # <<>> <=> raw[i].type = Num(Cable)

\* CableConstraint.removeFrom: the object's fields afterwards (both
\* branches assign lockToA).
removeFromFields(c) == [c EXCEPT !.lockToA = NoObj]

\* cable.lockHeadTo(body) on the tracked cable constraints[j].
LockHeadTo(j, body) ==
    /\ pc = "idle"
    /\ constraints[j].kind = "cable"
    /\ body # NoObj => FreeIds(Session) # {}
    /\ LET r == lockXTo(worldConstraints, constraints[j].lockToA, body, FreshK(Session, 1))
       IN /\ worldConstraints' = r.wc
          /\ constraints' = [constraints EXCEPT ![j].lockToA = r.result]
    /\ hist' = Remember(hist, "lock")
    /\ UNCHANGED <<raw, nodes, pc, idx, worldBodies, obj2bod, customId2ConstraintFactory,
                   customConstraints, rigs, lastRegistered, before, created,
                   factoryReturned>>
    /\ UNCHANGED <<cableVars, syncVars, hostVars>>

\* cable.lockTailTo(body) on the tracked cable constraints[j].
LockTailTo(j, body) ==
    /\ pc = "idle"
    /\ constraints[j].kind = "cable"
    /\ body # NoObj => FreeIds(Session) # {}
    /\ LET r == lockXTo(worldConstraints, constraints[j].lockToB, body, FreshK(Session, 1))
       IN /\ worldConstraints' = r.wc
          /\ constraints' = [constraints EXCEPT ![j].lockToB = r.result]
    /\ hist' = Remember(hist, "lock")
    /\ UNCHANGED <<raw, nodes, pc, idx, worldBodies, obj2bod, customId2ConstraintFactory,
                   customConstraints, rigs, lastRegistered, before, created,
                   factoryReturned>>
    /\ UNCHANGED <<cableVars, syncVars, hostVars>>

\* cable.removeFrom(world) on the tracked cable constraints[j].
CableRemoveFrom(j) ==
    /\ pc = "idle"
    /\ constraints[j].kind = "cable"
    /\ LET w == removeFrom(constraints[j], worldBodies, worldConstraints)
       IN /\ worldBodies' = w.worldBodies
          /\ worldConstraints' = w.worldConstraints
    /\ constraints' = [constraints EXCEPT ![j] = removeFromFields(@)]
    /\ hist' = Remember(hist, "removeFrom")
    /\ UNCHANGED <<raw, nodes, pc, idx, obj2bod, customId2ConstraintFactory,
                   customConstraints, rigs, lastRegistered, before, created,
                   factoryReturned>>
    /\ UNCHANGED <<cableVars, syncVars, hostVars>>

\* The bodies the host can lock a cable to: those of the index, or none.
LockTargets == {obj2bod[j].body : j \in DOMAIN obj2bod} \cup {NoObj}

NextCable ==
    \/ Next
    \/ \E j \in DOMAIN constraints, body \in LockTargets : LockHeadTo(j, body)
    \/ \E j \in DOMAIN constraints, body \in LockTargets : LockTailTo(j, body)
    \/ \E j \in DOMAIN constraints : CableRemoveFrom(j)

SpecCable == InitCable /\ [][NextCable]_vars

\* ------------------------------------------------------- SyncConstraint
\* Poses are positions on one axis (the rotation part follows the same
\* pattern and is left out).  offsetPos is the node's position relative to
\* the body.
Poses == 0..MaxPos

\* initOffsets(): offsetPos = objWorldPos - bodyPos; hasInit = true
initOffsets(link, body, obj) == [hasInit |-> TRUE, offsetPos |-> obj - body]

\* An update that would compute the offsets every time.
syncUpdateReinit(link, body, obj) ==
    LET l == initOffsets(link, body, obj)
    IN [link |-> l, obj |-> l.offsetPos + body]

\* update(): if (!hasInit) initOffsets(); the node is put at
\* offsetPos + bodyPos.
syncUpdate(link, body, obj) ==
    LET l == IF ~link.hasInit THEN initOffsets(link, body, obj) ELSE link
    IN [link |-> l, obj |-> l.offsetPos + body]

\* A new SyncConstraint between a node and a body that are anywhere.
InitSync ==
    /\ raw = <<>>
    /\ InitSession /\ InitScratch /\ NoChildren /\ HostIdle
    /\ syncLink = [hasInit |-> FALSE, offsetPos |-> 0]
    /\ bodyPose \in Poses
    /\ objPose \in Poses
    /\ updates = 0

\* constraint.update() is called on the link.
SyncUpdate ==
    /\ updates < MaxUpdates
    /\ LET u == syncUpdate(syncLink, bodyPose, objPose)
       IN syncLink' = u.link /\ objPose' = u.obj
    /\ updates' = updates + 1
    /\ UNCHANGED <<bodyPose, rigVars, cableVars, hostVars>>

\* The physics world moves the body.
BodyMoves(p) ==
    /\ bodyPose' = p
    /\ UNCHANGED <<syncLink, objPose, updates, rigVars, cableVars, hostVars>>

\* Something else (an animation, the host) moves the node.
ObjMoves(p) ==
    /\ objPose' = p
    /\ UNCHANGED <<syncLink, bodyPose, updates, rigVars, cableVars, hostVars>>

NextSync ==
    \/ SyncUpdate
    \/ \E p \in Poses : BodyMoves(p)
    \/ \E p \in Poses : ObjMoves(p)

SpecSync == InitSync /\ [][NextSync]_vars

\* ------------------------------------------------------------ demo host
\* main.ts: one world, the variable physicsRig, the file-drop callback, the
\* GLTF load callback and the frame loop.  A rig session is known here by
\* its number; it has bodies in the world from its rigScene to its clear().
\* A dropped file's scene is "linked" (a collider and a node synced to it)
\* or "bare" (nothing to rig).  syncLink, bodyPose and objPose are those of
\* the session physicsRig holds.
HostScenes == {"linked", "bare"}

\* physicsRig holds a session whose link is in its constraint list.
HasLink == physicsRig # 0 /\ physicsRig \in inWorld

InitHost ==
    /\ raw = <<>>
    /\ InitSession /\ InitScratch /\ NoChildren /\ SyncIdle /\ HostIdle

\* onFileDrop's callback: physicsRig?.clear(); disposeScene(scene); the
\* load is started.
Drop ==
    /\ pending < MaxPending
    /\ inWorld' = inWorld \ {physicsRig}
    /\ pending' = pending + 1
    /\ UNCHANGED <<physicsRig, sessions, rendered, rigVars, cableVars, syncVars>>

\* The load callback: physicsRig = new ThreeJsCannonEsSceneRigger(world);
\* ...; physicsRig.rigScene(file.scene).
LoadDone(scene) ==
    /\ pending > 0
    /\ sessions < MaxSessions
    /\ pending' = pending - 1
    /\ sessions' = sessions + 1
    /\ physicsRig' = sessions + 1
    /\ inWorld' = IF scene = "linked" THEN inWorld \cup {sessions + 1} ELSE inWorld
    /\ syncLink' = [hasInit |-> FALSE, offsetPos |-> 0]
    /\ updates' = 0
    /\ IF scene = "linked"
       THEN bodyPose' \in Poses /\ objPose' \in Poses
       ELSE UNCHANGED <<bodyPose, objPose>>
    /\ UNCHANGED <<rendered, rigVars, cableVars>>

\* animate(): physicsRig?.update(delta); world.step(dt, delta);
\* renderer.render(scene, camera) - in that order.
Animate ==
    /\ \E stepped \in Poses :
         LET u == IF HasLink THEN syncUpdate(syncLink, bodyPose, objPose)
                  ELSE [link |-> syncLink, obj |-> objPose]
         IN /\ syncLink' = u.link
            /\ objPose' = u.obj
            /\ bodyPose' = IF inWorld # {} THEN stepped ELSE bodyPose
            /\ rendered' = [drawn |-> HasLink, obj |-> objPose', body |-> bodyPose']
    /\ updates' = IF HasLink /\ updates < MaxUpdates THEN updates + 1 ELSE updates
    /\ UNCHANGED <<physicsRig, pending, inWorld, sessions, rigVars, cableVars>>

NextHost ==
    \/ Drop
    \/ \E scene \in HostScenes : LoadDone(scene)
    \/ Animate

SpecHost == InitHost /\ [][NextHost]_vars

\* ================================================================ claims
\* rigScene has returned and nothing was called on the session since.
RigReturned == pc = "idle" /\ hist = "rig"

\* A custom constraint that its factory added to the world.
CustomInWorld ==
    \E n \in NameKeys :
        customConstraints[n] # NoObj /\ customConstraints[n] \in worldConstraints

\* C1: rigScene(root) on an empty session followed by clear() leaves the
\* world with exactly the bodies and constraints it held before rigScene,
\* whatever the scene, also what a custom constraint registered.
C1_RigThenClearRestoresWorld ==
    (pc = "idle" /\ hist = "rig;clear" /\ before.empty) =>
        /\ worldBodies = before.worldBodies
        /\ worldConstraints = before.worldConstraints

\* What does hold: the world is restored unless a custom constraint put
\* something into it.
C1_RestoredUnlessCustom ==
    (pc = "idle" /\ hist = "rig;clear" /\ before.empty /\ ~CustomInWorld) =>
        /\ worldBodies = before.worldBodies
        /\ worldConstraints = before.worldConstraints

\* C2: after rigScene returns, every constraint it created (joint, sync link,
\* cable, custom constraint) is exactly once in the session's constraint list.
C2_CreatedTrackedOnce ==
    RigReturned =>
        \A c \in created :
            Cardinality({j \in DOMAIN constraints : constraints[j].id = c}) = 1

\* C3: after clear() every lookup by name returns not-found: getBodyByName,
\* the get<Kind>Constraint getters and getCustomConstraint.
C3_ClearEmptiesIndices ==
    (pc = "idle" /\ hist \in {"clear", "rig;clear", "rigThrow;clear"}) =>
        \A n \in NameKeys :
            /\ getBodyByName(obj2bod, nodes, n) = NoObj
            /\ getConstraintByName(constraints, nodes, n) = NoObj
            /\ getCustomConstraint(customConstraints, n) = NoObj

\* Node i has been through the first traversal of the first rigScene, and of
\* no later one.
FirstPassDone(i) == rigs = 1 /\ (pc # "pass1" \/ idx > i)

\* Node i has been through a first traversal at least once.
NormalizedOnce(i) == rigs >= 2 \/ FirstPassDone(i)

\* C4: normalizing is idempotent: once a node's tag, group and mask are
\* normalized, a later pass 1 over the node leaves them as the first
\* normalization of the raw annotation made them.
C4_RenormalizeIdempotent ==
    \A i \in DOMAIN nodes :
        NormalizedOnce(i) =>
            /\ nodes[i].type = NormalizeNode(raw[i]).type
            /\ nodes[i].cgroup = NormalizeNode(raw[i]).cgroup
            /\ nodes[i].cwith = NormalizeNode(raw[i]).cwith

\* The part of C4 that holds: the tag, once resolved, is kept.
C4_TagKept ==
    \A i \in DOMAIN nodes :
        NormalizedOnce(i) => nodes[i].type = NormalizeNode(raw[i]).type

\* The annotation is absent, or an array that selects no bit.
NoBitSelected(v) ==
    \/ v.k = "undef"
    \/ v.k = "arr" /\ \A k \in DOMAIN v.v : v.v[k] = 0

\* C5: a collider body built from a node whose group (mask) annotation is
\* absent or selects no bit gets collision group (mask) 1.
C5_EmptyFilterDefaultsToOne ==
    \A j \in DOMAIN obj2bod :
        rigs = 1 =>
            /\ NoBitSelected(raw[obj2bod[j].obj].cgroup) => obj2bod[j].group = 1
            /\ NoBitSelected(raw[obj2bod[j].obj].cwith) => obj2bod[j].mask = 1

\* The part of C5 that holds: an absent annotation gives 1.
C5_AbsentFilterDefaultsToOne ==
    \A j \in DOMAIN obj2bod :
        rigs = 1 =>
            /\ raw[obj2bod[j].obj].cgroup = Undef => obj2bod[j].group = 1
            /\ raw[obj2bod[j].obj].cwith = Undef => obj2bod[j].mask = 1

\* The OR of 1 << index over the indices of a list.
RECURSIVE OrOfIndices(_, _)
OrOfIndices(list, n) ==
    IF n = 0 THEN 0 ELSE BitOr(OrOfIndices(list, n - 1), 2 ^ list[n])

\* The sum of 2^idx over the positions idx (0-based) whose flag is 1.
RECURSIVE FlagMask(_, _)
FlagMask(a, n) ==
    IF n = 0 THEN 0 ELSE FlagMask(a, n - 1) + (IF a[n] = 1 THEN 2 ^ (n - 1) ELSE 0)

IsFlags(v) == v.k = "arr" /\ \A k \in DOMAIN v.v : v.v[k] \in {0, 1}

\* C6 as stated: a raw group or mask that is a list of selected bit indices
\* normalizes to the OR of 1 << index over the indices of the list.
C6_IndexListMask ==
    \A i \in DOMAIN nodes :
        FirstPassDone(i) =>
            /\ raw[i].cgroup.k = "arr" =>
                 nodes[i].cgroup = Num(OrOfIndices(raw[i].cgroup.v, Len(raw[i].cgroup.v)))
            /\ raw[i].cwith.k = "arr" =>
                 nodes[i].cwith = Num(OrOfIndices(raw[i].cwith.v, Len(raw[i].cwith.v)))

\* C6 amended: a raw group or mask that is an array of per-bit flags (element
\* idx is 1 when bit idx is selected, else 0) normalizes to the OR of
\* 1 << idx over the positions idx whose flag is 1.
C6_FlagArrayMask ==
    \A i \in DOMAIN nodes :
        FirstPassDone(i) =>
            /\ IsFlags(raw[i].cgroup) =>
                 nodes[i].cgroup = Num(FlagMask(raw[i].cgroup.v, Len(raw[i].cgroup.v)))
            /\ IsFlags(raw[i].cwith) =>
                 nodes[i].cwith = Num(FlagMask(raw[i].cwith.v, Len(raw[i].cwith.v)))

\* A flag array with bits 0 and 2 selected has been normalized to 5.
C6_Witness ==
    \E i \in DOMAIN nodes :
        /\ FirstPassDone(i)
        /\ raw[i].cwith = Arr(<<1, 0, 1>>)
        /\ nodes[i].cwith = Num(5)

\* The tag each key of the code's table stands for.
CodeVocabulary ==
    {"x", "box", "sphere", "compound", "lock", "hinge", "point", "dist", "sync",
     "tube", "custom"}

CodeTag(t) ==
    CASE t = "x" -> Nothing
      [] t = "box" -> BoxCollider
      [] t = "sphere" -> SphereCollider
      [] t = "compound" -> CompoundCollider
      [] t = "lock" -> LockConstraint
      [] t = "hinge" -> HingeConstraint
      [] t = "point" -> PointConstraint
      [] t = "dist" -> DistanceConstraint
      [] t = "sync" -> SyncLocRot
      [] t = "tube" -> Cable
      [] t = "custom" -> Custom

\* The vocabulary as the specification words it.
SpecVocabulary ==
    {"none", "box", "sphere", "compound", "lock", "hinge", "point", "distance",
     "sync", "cable", "custom"}

SpecTag(t) ==
    CASE t = "none" -> Nothing
      [] t = "box" -> BoxCollider
      [] t = "sphere" -> SphereCollider
      [] t = "compound" -> CompoundCollider
      [] t = "lock" -> LockConstraint
      [] t = "hinge" -> HingeConstraint
      [] t = "point" -> PointConstraint
      [] t = "distance" -> DistanceConstraint
      [] t = "sync" -> SyncLocRot
      [] t = "cable" -> Cable
      [] t = "custom" -> Custom

\* Node i has a body in the index and in the world.
HasBody(i) ==
    \E j \in DOMAIN obj2bod : obj2bod[j].obj = i /\ obj2bod[j].body \in worldBodies

\* Node i has a constraint of that kind in the constraint list.
HasConstraint(i, kind, jointType) ==
    \E j \in DOMAIN constraints :
        /\ constraints[j].obj = i
        /\ constraints[j].kind = kind
        /\ constraints[j].jointType = jointType
        /\ kind = "joint" => constraints[j].cannon \in worldConstraints

\* Nothing was built for node i.
NothingBuilt(i) ==
    /\ \A j \in DOMAIN obj2bod : obj2bod[j].obj # i
    /\ \A j \in DOMAIN constraints : constraints[j].obj # i
    /\ factoryReturned[i].obj = NoObj

\* The reference names a collider node of the scene.
NamesCollider(name) ==
    \E j \in DOMAIN nodes : IsColliderType(nodes[j]) /\ nodes[j].name = name

\* No other custom-tagged node has node i's name.
UniqueCustomName(i) ==
    \A j \in DOMAIN nodes :
        (j # i /\ TypeIs(nodes[j], Custom)) => nodes[j].name # nodes[i].name

\* C7 as stated: each string of {none, box, sphere, compound, lock, hinge,
\* point, distance, sync, cable, custom} resolves to its tag.
C7_SpecVocabularyResolves ==
    \A i \in DOMAIN nodes :
        (NormalizedOnce(i) /\ raw[i].type.k = "str" /\ raw[i].type.v \in SpecVocabulary)
            => nodes[i].type = Num(SpecTag(raw[i].type.v))

\* C7 amended: each string of the code's vocabulary {x, box, sphere, compound,
\* lock, hinge, point, dist, sync, tube, custom} resolves to its tag, so that
\* the node gets the matching body, or - when its references resolve and its
\* factory is registered - the matching constraint; any other string (the
\* words none, distance and cable too) resolves to no tag: nothing is built
\* for the node and rigScene does not throw at it.
C7_CodeVocabularyResolves ==
    \A i \in DOMAIN nodes :
        raw[i].type.k = "str" =>
            LET t == raw[i].type.v
                o == nodes[i]
            IN /\ NormalizedOnce(i) =>
                    o.type = IF t \in CodeVocabulary THEN Num(CodeTag(t)) ELSE Undef
               /\ RigReturned =>
                    /\ t \in {"box", "sphere", "compound"} => HasBody(i)
                    /\ (t \in {"lock", "hinge", "point", "dist"}
                        /\ NamesCollider(o.A) /\ NamesCollider(o.B))
                          => HasConstraint(i, "joint", CodeTag(t))
                    /\ (t = "sync" /\ NamesCollider(o.syncSource))
                          => HasConstraint(i, "sync", Nothing)
                    /\ t = "tube" => HasConstraint(i, "cable", Nothing)
                    /\ (t = "custom" /\ UniqueCustomName(i)) =>
                          /\ factoryReturned[i].obj # NoObj
                          /\ customConstraints[o.name] = factoryReturned[i].obj
               /\ t \notin (CodeVocabulary \ {"x"}) =>
                    /\ NothingBuilt(i)
                    /\ ~(pc = "idle" /\ hist = "rigThrow" /\ idx = i)

\* A node tagged "dist" whose A and B resolve has its distance joint.
C7_Witness ==
    /\ RigReturned
    /\ \E i \in DOMAIN nodes :
         /\ raw[i].type = Str("dist")
         /\ HasConstraint(i, "joint", DistanceConstraint)
    /\ \E i \in DOMAIN nodes : raw[i].type = Str("box") /\ HasBody(i)

\* C8: with a factory registered for the node's identifier, after rigging a
\* custom-tagged node (names unique) getCustomConstraint(node name) returns the
\* very object the factory returned for that node, and the factory that was
\* called is the one registered last under that identifier.
C8_CustomConstraintRetrievable ==
    RigReturned =>
        \A i \in DOMAIN nodes :
            (TypeIs(nodes[i], Custom) /\ UniqueCustomName(i)) =>
                /\ factoryReturned[i].obj # NoObj
                /\ getCustomConstraint(customConstraints, nodes[i].name)
                     = factoryReturned[i].obj
                /\ factoryReturned[i].by = GetFactory(lastRegistered, nodes[i].customId)

\* A second rigScene has stored what the factory registered in between
\* returned, while the world still holds the first factory's joint.
C8_Witness ==
    /\ RigReturned
    /\ rigs = 2
    /\ \E i \in DOMAIN nodes :
         /\ TypeIs(nodes[i], Custom)
         /\ UniqueCustomName(i)
         /\ factoryReturned[i].by = "plain"
         /\ getCustomConstraint(customConstraints, nodes[i].name) = factoryReturned[i].obj
         /\ \E c \in worldConstraints :
              /\ c # factoryReturned[i].obj
              /\ \A j \in DOMAIN constraints : c \notin ConstraintIds(constraints[j])

\* Pass 2 is at a custom-tagged node without identifier or without a factory
\* registered for its identifier.
AtUnusableCustomNode ==
    /\ pc = "pass2"
    /\ TypeIs(nodes[idx], Custom)
    /\ \/ nodes[idx].customId \in {NoName, ""}
       \/ GetFactory(lastRegistered, nodes[idx].customId) = NoFactory

\* C9: rigScene throws when pass 2 reaches a custom-tagged node that has no
\* identifier or whose identifier has no registered factory; no factory is
\* called for the node and no custom-constraint entry is stored.
C9_UnusableCustomThrows ==
    [][AtUnusableCustomNode =>
         /\ pc' = "idle" /\ hist' = "rigThrow"
         /\ factoryReturned' = factoryReturned
         /\ customConstraints' = customConstraints
         /\ worldConstraints' = worldConstraints
         /\ constraints' = constraints]_vars

\* rigScene has thrown at a custom-tagged node with no entry under its name.
C9_Witness ==
    /\ pc = "idle" /\ hist = "rigThrow"
    /\ TypeIs(nodes[idx], Custom)
    /\ nodes[idx].customId = "foo"
    /\ getCustomConstraint(customConstraints, nodes[idx].name) = NoObj
    /\ obj2bod # <<>>

\* Pass 2 is at a sync-tagged node whose source names no body of the index.
AtUnresolvedSync ==
    /\ pc = "pass2"
    /\ TypeIs(nodes[idx], SyncLocRot)
    /\ \A j \in DOMAIN obj2bod : nodes[obj2bod[j].obj].name # nodes[idx].syncSource

\* C10: for a sync-tagged node whose source body cannot be resolved, rigScene
\* creates no constraint, does not throw, and goes on with the next node of
\* the traversal (or returns, after the last node).
C10_UnresolvedSyncSkipped ==
    [][AtUnresolvedSync =>
         /\ constraints' = constraints
         /\ worldConstraints' = worldConstraints
         /\ worldBodies' = worldBodies
         /\ created' = created
         /\ IF idx < Len(nodes)
            THEN pc' = "pass2" /\ idx' = idx + 1
            ELSE pc' = "idle" /\ hist' = "rig"]_vars

\* The traversal has gone past an unresolved sync node without creating
\* anything for it, and then built the next node's constraint.
C10_Witness ==
    /\ RigReturned
    /\ \E i \in DOMAIN nodes :
         /\ i < Len(nodes)
         /\ TypeIs(nodes[i], SyncLocRot)
         /\ ~NamesCollider(nodes[i].syncSource)
         /\ \A j \in DOMAIN constraints : constraints[j].obj # i
         /\ \E j \in DOMAIN constraints : constraints[j].obj = i + 1

\* The bodies of the index whose node carries that name.
BodiesNamed(name) ==
    {obj2bod[j].body : j \in {k \in DOMAIN obj2bod : nodes[obj2bod[k].obj].name = name}}

\* Sync node i refers to a collider node that comes later in the traversal.
RefersForward(i) ==
    /\ TypeIs(nodes[i], SyncLocRot)
    /\ \E j \in DOMAIN nodes :
         j > i /\ IsColliderType(nodes[j]) /\ nodes[j].name = nodes[i].syncSource

\* C11: within one rigScene no constraint is created before every collider
\* node of the scene has its body in the world and in the index (pass 2
\* starts only then, and constraints are created in pass 2 only); so a
\* constraint node whose references name collider nodes gets them resolved
\* to those nodes' bodies wherever the colliders stand in the traversal.
C11_CollidersBeforeConstraints ==
    /\ [](pc = "pass2" => \A i \in DOMAIN nodes : IsColliderType(nodes[i]) => HasBody(i))
    /\ [][(Len(constraints') > Len(constraints) \/ ~(created' \subseteq created)
             \/ ~(worldConstraints' \subseteq worldConstraints))
           => pc = "pass2"]_vars
    /\ [](RigReturned =>
            \A i \in DOMAIN nodes :
                /\ (TypeIs(nodes[i], SyncLocRot) /\ NamesCollider(nodes[i].syncSource)) =>
                      \E j \in DOMAIN constraints :
                          /\ constraints[j].obj = i
                          /\ constraints[j].kind = "sync"
                          /\ constraints[j].body \in BodiesNamed(nodes[i].syncSource)
                /\ (TypeIs(nodes[i], HingeConstraint)
                    /\ NamesCollider(nodes[i].A) /\ NamesCollider(nodes[i].B)) =>
                      HasConstraint(i, "joint", HingeConstraint))

\* rigScene returned with a sync link to the body of a collider that comes
\* after the sync node in the traversal.
C11_Witness ==
    /\ RigReturned
    /\ \E i \in DOMAIN nodes :
         /\ RefersForward(i)
         /\ \E j \in DOMAIN constraints :
              /\ constraints[j].obj = i
              /\ constraints[j].body \in BodiesNamed(nodes[i].syncSource)

\* C12: in every tick of the host loop update(delta) runs after the world
\* was stepped for that tick, so the node pose a tick renders is the one the
\* sync link derives from the body pose that tick's step produced.
C12_UpdateAfterStep ==
    rendered.drawn => rendered.obj = rendered.body + syncLink.offsetPos

\* What the loop does give: the rendered node pose follows the body pose
\* from before the tick's step.
C12_RenderedIsPreStep ==
    [][(rendered'.drawn /\ rendered' # rendered)
         => rendered'.obj = bodyPose + syncLink'.offsetPos]_vars

\* What a tracked constraint has registered in the world: its joint, or a
\* cable's rig and locks.
WorldParts(c) == {c.cannon, c.tube, c.lockToA, c.lockToB} \ {NoObj}

\* The bodies of the index.
TrackedBodies == {obj2bod[j].body : j \in DOMAIN obj2bod}

\* C13: clear() removes the tracked constraints from the world in reverse
\* order of their creation (the list grows at its end, clear() takes the last
\* one first and removes all of it - a cable's locks and rig too), removes no
\* tracked body while a tracked constraint is left, and changes neither the
\* world nor the indices when nothing is rigged.
C13_ClearOrder ==
    /\ [][(pc = "pass2" /\ constraints' # constraints) =>
            /\ Len(constraints') = Len(constraints) + 1
            /\ SubSeq(constraints', 1, Len(constraints)) = constraints]_vars
    /\ [][pc = "clear" =>
            /\ constraints # <<>> =>
                  LET c == constraints[Len(constraints)]
                  IN /\ constraints' = SubSeq(constraints, 1, Len(constraints) - 1)
                     /\ WorldParts(c) \cap (worldConstraints' \cup worldBodies') = {}
                     /\ TrackedBodies \cap worldBodies' = TrackedBodies \cap worldBodies
                     /\ obj2bod' = obj2bod
            /\ constraints = <<>> =>
                  /\ TrackedBodies \cap worldBodies' = {}
                  /\ worldConstraints' = worldConstraints
                  /\ obj2bod' = <<>>
                  /\ pc' = "idle"
            /\ SessionEmpty =>
                  /\ worldBodies' = worldBodies
                  /\ worldConstraints' = worldConstraints
                  /\ obj2bod' = obj2bod
                  /\ constraints' = constraints
                  /\ customConstraints' = customConstraints]_vars

\* clear() is about to remove the bodies after it removed a cable (locked
\* at both ends) and a joint that was created before the cable.
C13_Witness ==
    /\ pc = "clear"
    /\ constraints = <<>>
    /\ TrackedBodies # {}
    /\ TrackedBodies \subseteq worldBodies
    /\ \E i, k \in DOMAIN nodes :
         /\ i < k
         /\ TypeIs(nodes[i], LockConstraint)
         /\ TypeIs(nodes[k], Cable)
         /\ tubes[k].built
    /\ worldConstraints = {}

\* x is the wrapper object of a tracked constraint of that kind.
IsWrapperOfKind(x, kind) ==
    \E j \in DOMAIN constraints : constraints[j].id = x /\ constraints[j].kind = kind

\* x is the cannon-es joint of a tracked constraint of that joint type.
IsJointOfType(x, jointType) ==
    \E j \in DOMAIN constraints :
        /\ constraints[j].kind = "joint"
        /\ constraints[j].cannon = x
        /\ constraints[j].jointType = jointType

\* C14: get<Kind>Constraint(name) returns a constraint of the kind it names
\* or not-found: a lock joint from getLockConstraint, a hinge from
\* getHingeConstraint, a point joint from getPointConstraint, a distance
\* joint from getDistanceConstraint, a cable from getCableConstraint and a
\* sync link from getSyncConstraint.
C14_GettersReturnTheirKind ==
    pc = "idle" =>
        \A n \in NameKeys :
            LET found(x, ok) == x = NoObj \/ ok
            IN /\ found(getLockConstraint(constraints, nodes, n),
                        IsJointOfType(getLockConstraint(constraints, nodes, n), LockConstraint))
               /\ found(getHingeConstraint(constraints, nodes, n),
                        IsJointOfType(getHingeConstraint(constraints, nodes, n), HingeConstraint))
               /\ found(getPointConstraint(constraints, nodes, n),
                        IsJointOfType(getPointConstraint(constraints, nodes, n), PointConstraint))
               /\ found(getDistanceConstraint(constraints, nodes, n),
                        IsJointOfType(getDistanceConstraint(constraints, nodes, n),
                                      DistanceConstraint))
               /\ found(getCableConstraint(constraints, nodes, n),
                        IsWrapperOfKind(getCableConstraint(constraints, nodes, n), "cable"))
               /\ found(getSyncConstraint(constraints, nodes, n),
                        IsWrapperOfKind(getSyncConstraint(constraints, nodes, n), "sync"))

\* What the getters do give: the first tracked constraint of that name
\* (or its cannon-es joint), of whatever kind, and not-found without one.
C14_GettersReturnFirstOfName ==
    pc = "idle" =>
        \A n \in NameKeys :
            LET hits == {j \in DOMAIN constraints : nodes[constraints[j].obj].name = n}
                first == CHOOSE j \in hits : \A h \in hits : j <= h
            IN IF hits = {}
               THEN /\ getLockConstraint(constraints, nodes, n) = NoObj
                    /\ getCableConstraint(constraints, nodes, n) = NoObj
               ELSE /\ getLockConstraint(constraints, nodes, n) = constraints[first].cannon
                    /\ getHingeConstraint(constraints, nodes, n) = constraints[first].cannon
                    /\ getCableConstraint(constraints, nodes, n) = constraints[first].id
                    /\ getSyncConstraint(constraints, nodes, n) = constraints[first].id

\* The tube built for cable node i spans its first two children.
TubeSpansChildren(t, kids) ==
    /\ t.length = Abs(kids[1] - kids[2])
    /\ t.placed
    /\ t.position = kids[1]
    /\ t.lookAt = kids[2]

\* C15: for every cable node with at least two children the rig length is
\* the distance between the world positions of its first and second child,
\* and the tube is placed at the first child's position aimed at the second
\* child's - for every cable node of a scene with several, and whatever
\* rigScene / clear calls came before.
C15_CableSpansChildren ==
    \A i \in DOMAIN nodes :
        (TypeIs(nodes[i], Cable) /\ Len(children[i]) > 1 /\ tubes[i].built)
            => TubeSpansChildren(tubes[i], children[i])

\* What does hold: a cable built while vec2 is (0,0,0) - the first one after
\* the module is loaded or after a clear() - spans its children.
C15_SpansChildrenFromZero ==
    [][(pc = "pass2" /\ TypeIs(nodes[idx], Cable) /\ Len(children[idx]) > 1 /\ vec2 = 0)
         => TubeSpansChildren(tubes'[idx], children[idx])]_vars

\* Cable c has each lock field set exactly when that joint is in the world.
LocksConsistent(c) ==
    /\ c.lockToA # NoObj <=> c.lockToA \in worldConstraints
    /\ c.lockToB # NoObj <=> c.lockToB \in worldConstraints

\* Every constraint of the world is part of a tracked constraint.
NoStrayLock ==
    worldConstraints \subseteq UNION {WorldParts(constraints[j]) : j \in DOMAIN constraints}

\* C18: through any sequence of lockHeadTo, lockTailTo and removeFrom on a
\* CableConstraint its head-lock (tail-lock) field is set exactly when that
\* joint is registered in the world, the world holds no lock that a re-lock
\* left behind, and after removeFrom both fields are unset.
C18_LockFieldsMatchWorld ==
    pc = "idle" =>
        /\ \A j \in DOMAIN constraints :
              constraints[j].kind = "cable" => LocksConsistent(constraints[j])
        /\ NoStrayLock

\* What does hold: lockHeadTo and lockTailTo keep fields and world in step,
\* re-locking included; only removeFrom leaves a field set without its joint.
C18_LockingKeepsFieldsInStep ==
    [][(pc = "idle" /\ pc' = "idle" /\ hist' # "removeFrom"
          /\ NoStrayLock
          /\ \A j \in DOMAIN constraints :
                constraints[j].kind = "cable" => LocksConsistent(constraints[j]))
         => /\ NoStrayLock'
            /\ \A j \in DOMAIN constraints' :
                  constraints'[j].kind = "cable" => LocksConsistent(constraints[j])']_vars

\* The reference names a collider node of the index: a node with that
\* display name that has a body.
NamesIndexedCollider(ref) ==
    /\ ref # NoName
    /\ \E j \in DOMAIN obj2bod : nodes[obj2bod[j].obj].name = ref

\* C16: in pass 2, a reference (A, B or sync source) that the node does not
\* carry, or that names no collider node of the index, resolves to no body,
\* whatever else the index holds - colliders without a display name too.
C16_UnresolvedYieldsNoBody ==
    pc = "pass2" =>
        \A ref \in {nodes[idx].A, nodes[idx].B, nodes[idx].syncSource} :
            ~NamesIndexedCollider(ref) => getBodyByName(obj2bod, nodes, ref) = NoObj

\* What does hold: a reference that names no entry of the index by
\* userData.name - the absent name counted as a name - resolves to no body.
C16_NoEntryYieldsNoBody ==
    pc = "pass2" =>
        \A ref \in {nodes[idx].A, nodes[idx].B, nodes[idx].syncSource} :
            (\A j \in DOMAIN obj2bod : nodes[obj2bod[j].obj].name # ref)
                => getBodyByName(obj2bod, nodes, ref) = NoObj

\* C17: a sync link is uninitialized from its creation until its first
\* update; the first update initializes it and caches the offset between
\* node pose and body pose; no later step uninitializes it or changes the
\* cached offset, however body and node move.
C17_SyncInitOnce ==
    /\ [](updates = 0 <=> ~syncLink.hasInit)
    /\ [][(~syncLink.hasInit /\ syncLink'.hasInit) =>
            /\ updates = 0 /\ updates' = 1
            /\ syncLink'.offsetPos = objPose - bodyPose]_vars
    /\ [][syncLink.hasInit =>
            (syncLink'.hasInit /\ syncLink'.offsetPos = syncLink.offsetPos)]_vars

\* After several updates the link still has the offset of its first update
\* although body and node have moved to another relative position.
C17_Witness ==
    /\ updates >= 2
    /\ syncLink.hasInit
    /\ syncLink.offsetPos # 0
    /\ syncLink.offsetPos # objPose - bodyPose

\* rigScene threw at a custom-constraint node (idx stays at that node).
ThrewAtCustom == hist = "rigThrow" /\ TypeIs(nodes[idx], Custom)

\* c is an object a custom factory returned.
IsCustomObject(c) == \E i \in DOMAIN factoryReturned : factoryReturned[i].obj = c

\* C19: when rigScene throws at a custom-constraint node nothing is rolled
\* back - every collider's body is in the world and in the index, every
\* joint, sync link and cable created before the failing node is in the
\* constraint list (joints in the world) - and a clear() called afterwards
\* takes all of those out of the world again.
C19_NoRollbackThenClear ==
    /\ (pc = "idle" /\ ThrewAtCustom) =>
          /\ \A i \in DOMAIN nodes : IsColliderType(nodes[i]) => HasBody(i)
          /\ \A c \in created :
                IsCustomObject(c) \/ \E j \in DOMAIN constraints : constraints[j].id = c
          /\ \A i \in 1..(idx - 1) :
                /\ (TypeIs(nodes[i], SyncLocRot) /\ NamesCollider(nodes[i].syncSource))
                      => HasConstraint(i, "sync", Nothing)
                /\ TypeIs(nodes[i], Cable) => HasConstraint(i, "cable", Nothing)
                /\ (TypeIs(nodes[i], HingeConstraint)
                    /\ NamesCollider(nodes[i].A) /\ NamesCollider(nodes[i].B))
                      => HasConstraint(i, "joint", HingeConstraint)
          /\ \A j \in DOMAIN constraints : WorldParts(constraints[j]) \subseteq
                                                worldConstraints \cup worldBodies
    /\ (pc = "idle" /\ hist = "rigThrow;clear" /\ TypeIs(nodes[idx], Custom)) =>
          /\ worldBodies \subseteq before.worldBodies
          /\ \A c \in worldConstraints :
                c \in before.worldConstraints \/ IsCustomObject(c)
          /\ SessionEmpty

\* rigScene threw at the third node, a custom one, after it had built a
\* body and a cable; the clear() that followed has emptied the world.
C19_Witness ==
    /\ pc = "idle"
    /\ hist = "rigThrow;clear"
    /\ idx = 3
    /\ TypeIs(nodes[3], Custom)
    /\ IsColliderType(nodes[1])
    /\ TypeIs(nodes[2], Cable)
    /\ tubes[2].built
    /\ created # {}
    /\ worldBodies = {HostBody}
    /\ worldConstraints = {}

\* C20: in the demo host, whatever the order of file drops and load
\* completions, every session with bodies in the shared world is the one
\* physicsRig holds (the one the frame loop updates and the next drop
\* clears).
C20_WorldBelongsToPhysicsRig ==
    \A s \in inWorld : s = physicsRig

\* What does hold: a session is lost only to a load that completes while
\* physicsRig still has bodies in the world, which takes a second drop
\* before the first load completed.
C20_LostOnlyToOverlappingLoads ==
    [][(C20_WorldBelongsToPhysicsRig /\ ~C20_WorldBelongsToPhysicsRig')
         => (pending' = pending - 1 /\ physicsRig \in inWorld)]_vars

====
